---- MODULE Spec2Model ----
(***************************************************************************)
(* A model of pynoddy.experiment.MonteCarlo                                *)
(* (src/pynoddy/experiment/MonteCarlo.py).                                 *)
(*                                                                         *)
(* Spec     : a script that constructs a MonteCarlo object and calls       *)
(*            generate_model_instances (or the static stub                 *)
(*            load_noddy_realisations); the caller's thread and the worker *)
(*            threads it spawns all execute generate_model_instances.      *)
(* SpecHist : generate_models_from_existing_histories.                     *)
(*                                                                         *)
(* Strings are sequences of tokens (string concatenation is \o); a path is *)
(* a sequence of components, each a string.  The verbose flag only selects *)
(* between printing and not printing around the same calls and is left out.*)
(***************************************************************************)
EXTENDS Integers, Sequences, FiniteSets, TLC

\* Largest run count and worker count explored.
MaxCount == 3
MaxThreads == 3

\* The caller's thread; worker threads are numbered as the loop variable t.
Main == -1
Threads == 0 .. (MaxThreads - 1)
Procs == {Main} \cup Threads

\* Python's None (no path is empty).
None == <<>>

\* The seven simulation modes of the docstring, as character sequences.
SimTypes ==
  { <<"B","L","O","C","K">>,
    <<"G","E","O","P","H","Y","S","I","C","S">>,
    <<"S","U","R","F","A","C","E","S">>,
    <<"B","L","O","C","K","_","G","E","O","P","H","Y","S">>,
    <<"T","O","P","O","L","O","G","Y">>,
    <<"B","L","O","C","K","_","S","U","R","F","A","C","E","S">> ,
    <<"A","L","L">> }

\* Python's `sub in s` on strings.
Contains(sub, s) ==
  \E i \in 1 .. (Len(s) - Len(sub) + 1) : SubSeq(s, i, i + Len(sub) - 1) = sub

IsTopologyOrAll(s) ==
  Contains(<<"T","O","P","O","L","O","G","Y">>, s) \/ s = <<"A","L","L">>

\* "TOPOLOGY" in stype
IsTopology(s) == Contains(<<"T","O","P","O","L","O","G","Y">>, s)

\* os.uname()[1] on Linux, "" elsewhere.
NodeNames == { <<>>, <<"node">> }

\* os.path.join(path, name): joining "" only adds a trailing separator, which
\* names the same directory.
Join(p, name) == IF name = <<>> THEN p ELSE Append(p, name)

\* path + suffix
Plus(p, suffix) == [p EXCEPT ![Len(p)] = @ \o suffix]

DigitChar == <<"0","1","2","3","4","5","6","7","8","9">>

RECURSIVE Digits(_)
\* "%d" % k for k >= 0
Digits(k) ==
  IF k < 10 THEN <<DigitChar[k + 1]>>
  ELSE Append(Digits(k \div 10), DigitChar[(k % 10) + 1])

RECURSIVE ZeroPad(_, _)
ZeroPad(d, width) == IF Len(d) >= width THEN d ELSE ZeroPad(<<"0">> \o d, width)

\* "%04d" % k
Fmt04d(k) == ZeroPad(Digits(k), 4)

\* "%s_%04d" % (self.basename, n)
OutputFile(base, k) == base \o <<"_">> \o Fmt04d(k)

\* os.path.join(path, outputfile)
OutputPath(p, base, k) == Join(p, OutputFile(base, k))

ThreadPathShared(p, i) == p

\* os.path.join(path, "thread_%d" % t)
ThreadPath(p, i) == Join(p, <<"thread_">> \o Digits(i))

ChunkSizeNoRemainder(cnt, thr, i) == cnt \div thr

\* n = count / threads; the first thread gets the remainder
ChunkSize(cnt, thr, i) ==
  IF i = 0 THEN (cnt \div thr) + (cnt % thr) ELSE cnt \div thr

ChangePathShared(chg, i) == chg

\* "%s_thread%d" % (changes, t), or None
ChangePath(chg, i) ==
  IF chg = None THEN None ELSE Plus(chg, <<"_thread">> \o Digits(i))

\* The artifacts the simulator leaves beside a history file.
DotG01 == <<".","g","0","1">>
DotG23 == <<".","g","2","3">>
DotHis == <<".","h","i","s">>
DotCsv == <<".","c","s","v">>
ModelOutput(prefix) == Plus(prefix, DotG01)
TopologyOutput(prefix) == Plus(prefix, DotG23)
HistoryFile(prefix) == Plus(prefix, DotHis)

\* All proper and improper non-empty prefixes of a path: what os.makedirs creates.
Ancestors(p) == { SubSeq(p, 1, k) : k \in 1 .. Len(p) }

OutputDir == << <<"mc_out">> >>
DefaultChanges == << <<"parameters">> >>
BaseName == <<"out">>

VARIABLES
  nodename,     \* platform: os.uname()[1] or ""
  obj,          \* the MonteCarlo object: "none", "params" or "noparams"
  stype,        \* kwds sim_type of the call
  pc,           \* per thread: position in generate_model_instances
  path,         \* per thread: local path
  count,        \* per thread: argument count
  threads,      \* per thread: kwds threads
  changes,      \* per thread: kwds write_changes
  n,            \* per thread: loop variable of the run loop
  t,            \* per thread: loop variable of the spawn and join loops
  fs_dirs,      \* directories that exist
  fs_files,     \* files that exist
  preexisting,  \* files that existed before the script started
  writes,       \* <<thread, file>>: every file write performed
  log           \* per thread: the calls made, in order

\* The MonteCarlo objects: the script's own and the deep copies.
VARIABLES
  self_obj,     \* per thread: the object its call is bound to (self, t_his)
  description   \* per object: its Model Description

obj_vars == << self_obj, description >>

\* load_topology_realisations (fs_files is shared).
VARIABLES
  load_pc,      \* the caller's position
  load_path,    \* argument path: the root directory
  load_files,   \* the files os.walk has still to yield
  topologies    \* the list built so far: the base each NoddyTopology was loaded from

load_vars == << load_pc, load_path, load_files, topologies >>

\* generate_models_from_existing_histories (stype and fs_files are shared).
VARIABLES
  hist_pc,      \* the caller's position
  hist_path,    \* argument path: the directory searched
  hist_threads, \* kwds threads
  force,        \* kwds force_recalculate
  his_files,    \* the list of history files still to dispatch
  thread_list,  \* the threads created so far, in order
  hist_n,       \* loop variable n of the dispatch loop
  hist_j,       \* position of the join loop in thread_list
  th_pc,        \* per thread: position in the single-file branch
  th_path,      \* per thread: argument path (one history file)
  th_log        \* per thread: the simulator calls made, in order

hist_vars == << hist_pc, hist_path, hist_threads, force, his_files, thread_list,
                hist_n, hist_j, th_pc, th_path, th_log >>

gmi_vars == << nodename, obj, pc, path, count, threads, changes, n, t,
               fs_dirs, preexisting, writes, log, obj_vars >>

vars == << nodename, obj, stype, pc, path, count, threads, changes, n, t,
           fs_dirs, fs_files, preexisting, writes, log, hist_vars, obj_vars, load_vars >>

\* The directory part of a file path.
DirName(f) == SubSeq(f, 1, Len(f) - 1)

\* What one run leaves at an output prefix.
RunFiles(prefix) == { HistoryFile(prefix), ModelOutput(prefix), TopologyOutput(prefix) }

\* The directories in which a call on this platform places its runs.
WorkDirs(node) ==
  { Join(OutputDir, node) } \cup
  { Join(ThreadPath(Join(OutputDir, node), i), node) : i \in Threads }

\* Everything an earlier script run with the largest counts left behind.
PreviousFiles(node) ==
  UNION { RunFiles(OutputPath(d, BaseName, k)) : d \in WorkDirs(node), k \in 1 .. MaxCount }

\* Largest number of history files and of concurrent threads explored for
\* generate_models_from_existing_histories.
MaxFiles == 3
MaxHistThreads == 2

HistThreads == 1 .. MaxFiles

\* Every thread is bound to an object of its own number; only Main's exists
\* before a call, with the Model Description as loaded from the history file.
ObjInit ==
  /\ self_obj = [p \in Procs |-> p]
  /\ description = [p \in Procs |-> 0]

\* load_topology_realisations is not running.
LoadIdle ==
  /\ load_pc = "idle"
  /\ load_path = <<>>
  /\ load_files = <<>>
  /\ topologies = <<>>

\* generate_models_from_existing_histories is not running.
HistIdle ==
  /\ hist_pc = "idle"
  /\ hist_path = <<>>
  /\ hist_threads = 1
  /\ force = FALSE
  /\ his_files = <<>>
  /\ thread_list = <<>>
  /\ hist_n = 0
  /\ hist_j = 0
  /\ th_pc = [i \in HistThreads |-> "unstarted"]
  /\ th_path = [i \in HistThreads |-> <<>>]
  /\ th_log = [i \in HistThreads |-> <<>>]

Event(op, k, ok) == [op |-> op, n |-> k, ok |-> ok]

\* A logged call with the file it was given.
EventOn(op, k, ok, f) == [op |-> op, n |-> k, ok |-> ok, arg |-> f]

\* Every directory a call on this platform may create.
AllDirs(node) == UNION { Ancestors(d) : d \in WorkDirs(node) }

\* The directory trees that may be there before the call: any of those
\* directories, each with its parent.
DirTrees(node) ==
  { S \in SUBSET AllDirs(node) : \A d \in S : Len(d) > 1 => DirName(d) \in S }

\* Nothing constructed and nothing called yet.
NotCalled ==
  /\ obj = "none"
  /\ stype = <<"B","L","O","C","K">>
  /\ pc = [p \in Procs |-> IF p = Main THEN "new" ELSE "unstarted"]
  /\ path = [p \in Procs |-> <<>>]
  /\ count = [p \in Procs |-> 0]
  /\ threads = [p \in Procs |-> 1]
  /\ changes = [p \in Procs |-> None]
  /\ n = [p \in Procs |-> 0]
  /\ t = [p \in Procs |-> 0]
  /\ writes = {}
  /\ log = [p \in Procs |-> <<>>]
  /\ ObjInit
  /\ HistIdle
  /\ LoadIdle

Init ==
  /\ nodename \in NodeNames
  /\ preexisting \in { {}, PreviousFiles(nodename) }
  /\ fs_files = preexisting
  /\ fs_dirs = UNION { Ancestors(DirName(f)) : f \in preexisting }
  /\ NotCalled

\* The same start with any directory tree in place and no files in it.
InitDirs ==
  /\ nodename \in NodeNames
  /\ preexisting = {}
  /\ fs_files = preexisting
  /\ fs_dirs \in DirTrees(nodename)
  /\ NotCalled

\* MonteCarlo.__init__: a parameter file is loaded; anything else only prints
\* an error, and construction completes either way.
Construct ==
  /\ pc[Main] = "new"
  /\ \E is_str \in BOOLEAN : obj' = IF is_str THEN "params" ELSE "noparams"
  /\ pc' = [pc EXCEPT ![Main] = "constructed"]
  /\ UNCHANGED << load_vars, hist_vars, obj_vars, nodename, stype, path, count, threads, changes, n, t,
                  fs_dirs, fs_files, preexisting, writes, log >>

\* load_noddy_realisations: prints an error and falls off the end (returns None).
LoadNoddyRealisations ==
  /\ pc[Main] \in {"new", "constructed"}
  /\ pc' = [pc EXCEPT ![Main] = "load_noddy_returned_None"]
  /\ UNCHANGED << load_vars, hist_vars, obj_vars, nodename, obj, stype, path, count, threads, changes, n, t,
                  fs_dirs, fs_files, preexisting, writes, log >>

\* The script calls generate_model_instances(path, count, **kwds) on an object
\* that holds a parameter specification.
CallWith(counts, stypes, tables) ==
  /\ pc[Main] = "constructed"
  /\ obj = "params"
  /\ \E c \in counts, w \in 1 .. MaxThreads, s \in stypes, ch \in tables :
       /\ count' = [count EXCEPT ![Main] = c]
       /\ threads' = [threads EXCEPT ![Main] = w]
       /\ changes' = [changes EXCEPT ![Main] = ch]
       /\ stype' = s
  /\ path' = [path EXCEPT ![Main] = OutputDir]
  /\ pc' = [pc EXCEPT ![Main] = "enter"]
  /\ UNCHANGED << load_vars, hist_vars, obj_vars, nodename, obj, n, t, fs_dirs, fs_files, preexisting, writes, log >>

Call == CallWith(0 .. MaxCount, SimTypes, {None, DefaultChanges})

\* Calls of at most one run in topology mode with a table: enough to visit
\* every directory step of every worker.
CallDirs == CallWith(0 .. 1, { <<"T","O","P","O","L","O","G","Y">> }, {DefaultChanges})

RunRangeFromZero(cnt) == [first |-> 0, last |-> cnt - 1]

\* range(1, count+1): numbering starts at 1
RunRange(cnt) == [first |-> 1, last |-> cnt]

IsDirNever(d) == FALSE

\* os.path.isdir(d)
IsDir(d) == d \in fs_dirs

RunHeadTableEarly(p, k) ==
  IF k < RunRange(count[p]).last THEN "perturb"
  ELSE IF changes[p] = None THEN "returned" ELSE "write_changes"

\* Where the run loop stands with loop variable k: another run, then the
\* changes table, then the return.
RunHead(p, k) ==
  IF k <= RunRange(count[p]).last THEN "perturb"
  ELSE IF changes[p] = None THEN "returned" ELSE "write_changes"

\* if threads > 1: ... else: ...
Branch(p) == IF threads[p] > 1 THEN "spawn_isdir" ELSE RunHead(p, RunRange(count[p]).first)

\* path = os.path.join(path, nodename); if not os.path.isdir(path)
Enter(p) ==
  /\ pc[p] = "enter"
  /\ LET newpath == Join(path[p], nodename) IN
       /\ path' = [path EXCEPT ![p] = newpath]
       /\ pc' = [pc EXCEPT ![p] = IF IsDir(newpath) THEN Branch(p) ELSE "makedirs"]
  /\ n' = [n EXCEPT ![p] = RunRange(count[p]).first]
  /\ t' = [t EXCEPT ![p] = 0]
  /\ UNCHANGED << load_vars, hist_vars, obj_vars, nodename, obj, stype, count, threads, changes,
                  fs_dirs, fs_files, preexisting, writes, log >>

\* os.makedirs(path): OSError if the leaf exists
MakeDirs(p) ==
  /\ pc[p] = "makedirs"
  /\ IF path[p] \in fs_dirs
       THEN /\ pc' = [pc EXCEPT ![p] = "raised"]
            /\ UNCHANGED fs_dirs
       ELSE /\ pc' = [pc EXCEPT ![p] = Branch(p)]
            /\ fs_dirs' = fs_dirs \cup Ancestors(path[p])
  /\ log' = [log EXCEPT ![p] = Append(@, EventOn("makedirs", 0, path[p] \notin fs_dirs, path[p]))]
  /\ UNCHANGED << load_vars, hist_vars, obj_vars, nodename, obj, stype, path, count, threads, changes, n, t,
                  fs_files, preexisting, writes >>

\* threadpath = ...; if not os.path.isdir(threadpath)
SpawnIsDir(p) ==
  /\ pc[p] = "spawn_isdir"
  /\ pc' = [pc EXCEPT ![p] =
              IF IsDir(ThreadPath(path[p], t[p])) THEN "spawn_start" ELSE "spawn_mkdir"]
  /\ UNCHANGED << load_vars, hist_vars, obj_vars, nodename, obj, stype, path, count, threads, changes, n, t,
                  fs_dirs, fs_files, preexisting, writes, log >>

\* os.mkdir(threadpath): OSError if it exists
SpawnMkDir(p) ==
  /\ pc[p] = "spawn_mkdir"
  /\ IF ThreadPath(path[p], t[p]) \in fs_dirs
       THEN /\ pc' = [pc EXCEPT ![p] = "raised"]
            /\ UNCHANGED fs_dirs
       ELSE /\ pc' = [pc EXCEPT ![p] = "spawn_start"]
            /\ fs_dirs' = fs_dirs \cup {ThreadPath(path[p], t[p])}
  /\ log' = [log EXCEPT ![p] = Append(@, EventOn("mkdir", 0, ThreadPath(path[p], t[p]) \notin fs_dirs,
                                               ThreadPath(path[p], t[p])))]
  /\ UNCHANGED << load_vars, hist_vars, obj_vars, nodename, obj, stype, path, count, threads, changes, n, t,
                  fs_files, preexisting, writes >>

SharedSelf(p, w) == self_obj[p]

\* t_his = copy.deepcopy(self): a new object, here numbered as its worker,
\* that starts with the state of the caller's object.
DeepCopy(p, w) == w

\* deepcopy, chunk size, changes path, Thread(...).start(): worker t begins
\* generate_model_instances(threadpath, n, sim_type, verbose, write_changes)
\* with the default threads = 1.
SpawnStart(p) ==
  /\ pc[p] = "spawn_start"
  /\ LET w == t[p] IN
       /\ pc' = [pc EXCEPT ![w] = "enter",
                           ![p] = IF w + 1 < threads[p] THEN "spawn_isdir" ELSE "join"]
       /\ path' = [path EXCEPT ![w] = ThreadPath(path[p], w)]
       /\ count' = [count EXCEPT ![w] = ChunkSize(count[p], threads[p], w)]
       /\ threads' = [threads EXCEPT ![w] = 1]
       /\ changes' = [changes EXCEPT ![w] = ChangePath(changes[p], w)]
       /\ t' = [t EXCEPT ![p] = IF w + 1 < threads[p] THEN w + 1 ELSE 0]
       /\ self_obj' = [self_obj EXCEPT ![w] = DeepCopy(p, w)]
       /\ description' = [description EXCEPT ![DeepCopy(p, w)] = description[self_obj[p]]]
  /\ UNCHANGED << load_vars, hist_vars, nodename, obj, stype, n, fs_dirs, fs_files,
                  preexisting, writes, log >>

ThreadFinishedNoWait(w) == TRUE

\* t.join() returns once thread t has ended, normally or by an uncaught exception.
ThreadFinished(w) == pc[w] \in {"returned", "raised"}

\* for t in thread_list: t.join(); after the last one the call returns.
JoinThread(p) ==
  /\ pc[p] = "join"
  /\ ThreadFinished(t[p])
  /\ t' = [t EXCEPT ![p] = t[p] + 1]
  /\ pc' = [pc EXCEPT ![p] = IF t[p] + 1 < threads[p] THEN "join" ELSE "returned"]
  /\ UNCHANGED << load_vars, hist_vars, obj_vars, nodename, obj, stype, path, count, threads, changes, n,
                  fs_dirs, fs_files, preexisting, writes, log >>

\* Perturb with the history file left unwritten.
PerturbThenRun(p) ==
  /\ pc[p] = "perturb"
  /\ log' = [log EXCEPT ![p] = Append(@, Event("random_perturbation", n[p], TRUE))]
  /\ description' = [description EXCEPT ![self_obj[p]] = @ + 1]
  /\ UNCHANGED self_obj
  /\ pc' = [pc EXCEPT ![p] = "compute_model"]
  /\ UNCHANGED << load_vars, hist_vars, nodename, obj, stype, path, count, threads, changes, n, t,
                  fs_dirs, fs_files, preexisting, writes >>

\* Experiment.random_perturbation changes the Model Description in place;
\* the description is modelled by the number of perturbations applied to it.
Perturbed(d) == d + 1

\* self.random_perturbation(verbose=vb)
Perturb(p) ==
  /\ pc[p] = "perturb"
  /\ log' = [log EXCEPT ![p] = Append(@, Event("random_perturbation", n[p], TRUE))]
  /\ description' = [description EXCEPT ![self_obj[p]] = Perturbed(@)]
  /\ UNCHANGED self_obj
  /\ pc' = [pc EXCEPT ![p] = "write_history"]
  /\ UNCHANGED << load_vars, hist_vars, nodename, obj, stype, path, count, threads, changes, n, t,
                  fs_dirs, fs_files, preexisting, writes >>

\* self.write_history(outputpath + ".his")
WriteHistory(p) ==
  /\ pc[p] = "write_history"
  /\ LET his == HistoryFile(OutputPath(path[p], BaseName, n[p])) IN
       /\ fs_files' = fs_files \cup {his}
       /\ writes' = writes \cup {<<p, his>>}
  /\ log' = [log EXCEPT ![p] = Append(@, EventOn("write_history", n[p], TRUE,
                                   HistoryFile(OutputPath(path[p], BaseName, n[p]))))]
  /\ pc' = [pc EXCEPT ![p] = "compute_model"]
  /\ UNCHANGED << load_vars, hist_vars, obj_vars, nodename, obj, stype, path, count, threads, changes, n, t,
                  fs_dirs, preexisting >>

\* ComputeModel with the run skipped when its output already exists.
ComputeModelSkipExisting(p) ==
  /\ pc[p] = "compute_model"
  /\ \E ok \in BOOLEAN :
       LET out == ModelOutput(OutputPath(path[p], BaseName, n[p]))
           skip == out \in fs_files
       IN
       /\ log' = [log EXCEPT ![p] =
                    IF skip THEN @
                    ELSE Append(@, EventOn("compute_model", n[p], ok,
                                           HistoryFile(OutputPath(path[p], BaseName, n[p]))))]
       /\ fs_files' = IF ok THEN fs_files \cup {out} ELSE fs_files
       /\ writes' = IF ok /\ ~skip THEN writes \cup {<<p, out>>} ELSE writes
       /\ pc' = [pc EXCEPT ![p] =
                   IF ~ok /\ ~skip THEN "raised"
                   ELSE IF IsTopology(stype) /\ ~skip THEN "compute_topology"
                   ELSE RunHead(p, n[p] + 1)]
       /\ n' = [n EXCEPT ![p] =
                   IF skip \/ (ok /\ ~IsTopology(stype)) THEN n[p] + 1 ELSE n[p]]
  /\ UNCHANGED << load_vars, hist_vars, obj_vars, nodename, obj, stype, path, count, threads, changes, t,
                  fs_dirs, preexisting >>

\* pynoddy.compute_model(outputpath + ".his", outputpath, sim_type = stype):
\* returns after writing its output, or raises.
ComputeModel(p) ==
  /\ pc[p] = "compute_model"
  /\ \E ok \in BOOLEAN :
       LET out == ModelOutput(OutputPath(path[p], BaseName, n[p])) IN
       /\ log' = [log EXCEPT ![p] = Append(@, EventOn("compute_model", n[p], ok,
                                        HistoryFile(OutputPath(path[p], BaseName, n[p]))))]
       /\ fs_files' = IF ok THEN fs_files \cup {out} ELSE fs_files
       /\ writes' = IF ok THEN writes \cup {<<p, out>>} ELSE writes
       /\ pc' = [pc EXCEPT ![p] =
                   IF ~ok THEN "raised"
                   ELSE IF IsTopology(stype) THEN "compute_topology"
                   ELSE RunHead(p, n[p] + 1)]
       /\ n' = [n EXCEPT ![p] = IF ok /\ ~IsTopology(stype) THEN n[p] + 1 ELSE n[p]]
  /\ UNCHANGED << load_vars, hist_vars, obj_vars, nodename, obj, stype, path, count, threads, changes, t,
                  fs_dirs, preexisting >>

\* pynoddy.compute_topology(outputpath): returns after writing its output, or raises.
ComputeTopology(p) ==
  /\ pc[p] = "compute_topology"
  /\ \E ok \in BOOLEAN :
       LET out == TopologyOutput(OutputPath(path[p], BaseName, n[p])) IN
       /\ log' = [log EXCEPT ![p] = Append(@, EventOn("compute_topology", n[p], ok,
                                        OutputPath(path[p], BaseName, n[p])))]
       /\ fs_files' = IF ok THEN fs_files \cup {out} ELSE fs_files
       /\ writes' = IF ok THEN writes \cup {<<p, out>>} ELSE writes
       /\ pc' = [pc EXCEPT ![p] = IF ok THEN RunHead(p, n[p] + 1) ELSE "raised"]
       /\ n' = [n EXCEPT ![p] = IF ok THEN n[p] + 1 ELSE n[p]]
  /\ UNCHANGED << load_vars, hist_vars, obj_vars, nodename, obj, stype, path, count, threads, changes, t,
                  fs_dirs, preexisting >>

\* self.write_parameter_changes(changes + ".csv")
WriteChanges(p) ==
  /\ pc[p] = "write_changes"
  /\ LET csv == Plus(changes[p], DotCsv) IN
       /\ fs_files' = fs_files \cup {csv}
       /\ writes' = writes \cup {<<p, csv>>}
  /\ log' = [log EXCEPT ![p] = Append(@, Event("write_parameter_changes", n[p], TRUE))]
  /\ pc' = [pc EXCEPT ![p] = "returned"]
  /\ UNCHANGED << load_vars, hist_vars, obj_vars, nodename, obj, stype, path, count, threads, changes, n, t,
                  fs_dirs, preexisting >>

Next ==
  \/ Construct
  \/ LoadNoddyRealisations
  \/ Call
  \/ \E p \in Procs :
       \/ Enter(p)
       \/ MakeDirs(p)
       \/ SpawnIsDir(p)
       \/ SpawnMkDir(p)
       \/ SpawnStart(p)
       \/ JoinThread(p)
       \/ Perturb(p)
       \/ WriteHistory(p)
       \/ ComputeModel(p)
       \/ ComputeTopology(p)
       \/ WriteChanges(p)

Spec == Init /\ [][Next]_vars

NextDirs ==
  \/ Construct
  \/ LoadNoddyRealisations
  \/ CallDirs
  \/ \E p \in Procs :
       \/ Enter(p)
       \/ MakeDirs(p)
       \/ SpawnIsDir(p)
       \/ SpawnMkDir(p)
       \/ SpawnStart(p)
       \/ JoinThread(p)
       \/ Perturb(p)
       \/ WriteHistory(p)
       \/ ComputeModel(p)
       \/ ComputeTopology(p)
       \/ WriteChanges(p)

SpecDirs == InitDirs /\ [][NextDirs]_vars

(***************************************************************************)
(* generate_models_from_existing_histories                                 *)
(***************************************************************************)

\* The modes the calls are explored with: the default, the one that asks for
\* topology, and one more that does not.
HistSimTypes == { <<"B","L","O","C","K">>, <<"T","O","P","O","L","O","G","Y">>, <<"A","L","L">> }

\* The directories searched: one plain name, one written with a leading "./".
HistRoots == { << <<"multi_his_test">> >>, << <<".">>, <<"models">> >> }

HasDot(c) == \E i \in 1 .. Len(c) : c[i] = "."
FirstDot(c) == CHOOSE i \in 1 .. Len(c) : c[i] = "." /\ \A j \in 1 .. (i - 1) : c[j] # "."

\* path.split('.')[0]: the path string up to its first dot, wherever that is.
OutputPrefix(p) ==
  IF \A ci \in 1 .. Len(p) : ~HasDot(p[ci]) THEN p
  ELSE LET ci == CHOOSE a \in 1 .. Len(p) :
                   HasDot(p[a]) /\ \A b \in 1 .. (a - 1) : ~HasDot(p[b])
       IN Append(SubSeq(p, 1, ci - 1), SubSeq(p[ci], 1, FirstDot(p[ci]) - 1))

\* The files of the searched directory: history file i and the outputs beside it.
Stem(root, i) == Append(root, <<"m">> \o Digits(i))
HisPath(root, i) == HistoryFile(Stem(root, i))
NotesFile(root) == Append(root, <<"notes", ".", "t", "x", "t">>)

RECURSIVE Candidates(_, _)
Candidates(root, i) ==
  IF i = 0 THEN << NotesFile(root) >>
  ELSE Candidates(root, i - 1) \o
       << HisPath(root, i), ModelOutput(Stem(root, i)), TopologyOutput(Stem(root, i)) >>

\* os.walk(path): the files under path, here listed in name order.
Walk(root) ==
  LET Exists(f) == f \in fs_files
  IN SelectSeq(Candidates(root, MaxFiles), Exists)

\* if ('.his' in f): his_files.append(os.path.join(root, f))
GatherHisFiles(root) ==
  LET IsHis(f) == Contains(DotHis, f[Len(f)])
  IN SelectSeq(Walk(root), IsHis)

RemoveAll(s, x) == <<>>

\* his_files.remove(p): drops the first element equal to p.
RECURSIVE Remove(_, _)
Remove(s, x) ==
  IF s = <<>> THEN <<>>
  ELSE IF Head(s) = x THEN Tail(s) ELSE <<Head(s)>> \o Remove(Tail(s), x)

\* The initial directory: k history files, any of their outputs, one other file.
\* k history files under root, and the outputs the code would give them.
HisSet(root, k) == { HisPath(root, i) : i \in 1 .. k }
OutSet(root, k) ==
  UNION { { ModelOutput(OutputPrefix(f)), TopologyOutput(OutputPrefix(f)) } : f \in HisSet(root, k) }

\* Before the call on directory root, which holds the given files and a file
\* that is no history file.
HistStart(root, files) ==
  /\ hist_path = root
  /\ fs_files = files \cup { NotesFile(root) }
  /\ preexisting = fs_files
  /\ fs_dirs = { hist_path }
  /\ stype = <<"B","L","O","C","K">>
  /\ hist_pc = "start"
  /\ hist_threads = 1
  /\ force = FALSE
  /\ his_files = <<>>
  /\ thread_list = <<>>
  /\ hist_n = 0
  /\ hist_j = 0
  /\ th_pc = [i \in HistThreads |-> "unstarted"]
  /\ th_path = [i \in HistThreads |-> <<>>]
  /\ th_log = [i \in HistThreads |-> <<>>]
  /\ nodename = <<>>
  /\ obj = "none"
  /\ pc = [p \in Procs |-> IF p = Main THEN "idle" ELSE "unstarted"]
  /\ path = [p \in Procs |-> <<>>]
  /\ count = [p \in Procs |-> 0]
  /\ threads = [p \in Procs |-> 1]
  /\ changes = [p \in Procs |-> None]
  /\ n = [p \in Procs |-> 0]
  /\ t = [p \in Procs |-> 0]
  /\ writes = {}
  /\ log = [p \in Procs |-> <<>>]
  /\ ObjInit
  /\ LoadIdle

\* Up to MaxFiles history files with any of their outputs already there.
InitHist ==
  \E root \in HistRoots, k \in 0 .. MaxFiles :
    \E present \in SUBSET OutSet(root, k) :
      HistStart(root, HisSet(root, k) \cup present)

\* The same with either none or all of the outputs there.
InitHistFair ==
  \E root \in HistRoots, k \in 0 .. MaxFiles :
    \E present \in { {}, OutSet(root, k) } :
      HistStart(root, HisSet(root, k) \cup present)

\* The call with threads >= 1: read the keywords and gather the history files;
\* while len(his_files) > 0.
HistCall ==
  /\ hist_pc = "start"
  /\ \E w \in 1 .. MaxHistThreads, f \in BOOLEAN, s \in HistSimTypes :
       /\ hist_threads' = w
       /\ force' = f
       /\ stype' = s
       /\ his_files' = GatherHisFiles(hist_path)
  /\ hist_pc' = IF Len(his_files') > 0 THEN "for" ELSE "returned"
  /\ hist_n' = 0
  /\ UNCHANGED << load_vars, gmi_vars, fs_files, hist_path, thread_list, hist_j, th_pc, th_path, th_log >>

\* One iteration of for n in range(0, threads): if a file is left, take the
\* first one off the list and start a thread on it with threads = 0.
HistSpawn ==
  /\ hist_pc = "for"
  /\ IF Len(his_files) > 0
       THEN LET p == his_files[1]
                i == Len(thread_list) + 1
            IN /\ his_files' = Remove(his_files, p)
               /\ thread_list' = Append(thread_list, i)
               /\ th_pc' = [th_pc EXCEPT ![i] = "check_model"]
               /\ th_path' = [th_path EXCEPT ![i] = p]
       ELSE UNCHANGED << his_files, thread_list, th_pc, th_path >>
  /\ hist_n' = hist_n + 1
  /\ hist_pc' = IF hist_n + 1 < hist_threads THEN "for" ELSE "join"
  /\ hist_j' = 1
  /\ UNCHANGED << load_vars, gmi_vars, stype, fs_files, hist_path, hist_threads, force, th_log >>

HistThreadFinishedNoWait(i) == TRUE

\* t.join() returns once the thread has ended, normally or by an exception.
HistThreadFinished(i) == th_pc[i] \in {"returned", "raised"}

\* for t in thread_list: t.join(), over every thread created so far; then the
\* while condition again.
HistJoin ==
  /\ hist_pc = "join"
  /\ HistThreadFinished(thread_list[hist_j])
  /\ hist_j' = hist_j + 1
  /\ hist_n' = 0
  /\ hist_pc' = IF hist_j < Len(thread_list) THEN "join"
                ELSE IF Len(his_files) > 0 THEN "for" ELSE "returned"
  /\ UNCHANGED << load_vars, gmi_vars, stype, fs_files, hist_path, hist_threads, force,
                  his_files, thread_list, th_pc, th_path, th_log >>

NeedsModelIgnoringForce(output) == ModelOutput(output) \notin fs_files

\* if force or not os.path.exists(output+".g01")
NeedsModel(output) == force \/ ModelOutput(output) \notin fs_files

\* if force or not os.path.exists(output+".g23")
NeedsTopology(output) == force \/ TopologyOutput(output) \notin fs_files

\* output = path.split('.')[0] and the test before the Model Runner
HistCheckModel(i) ==
  /\ th_pc[i] = "check_model"
  /\ th_pc' = [th_pc EXCEPT ![i] =
                 IF NeedsModel(OutputPrefix(th_path[i])) THEN "compute_model"
                 ELSE "check_topology"]
  /\ UNCHANGED << load_vars, gmi_vars, stype, fs_files, hist_pc, hist_path, hist_threads, force,
                  his_files, thread_list, hist_n, hist_j, th_path, th_log >>

\* pynoddy.compute_model(path, output, sim_type = stype)
HistComputeModel(i) ==
  /\ th_pc[i] = "compute_model"
  /\ \E ok \in BOOLEAN :
       /\ th_log' = [th_log EXCEPT ![i] = Append(@, Event("compute_model", i, ok))]
       /\ fs_files' = IF ok THEN fs_files \cup { ModelOutput(OutputPrefix(th_path[i])) }
                      ELSE fs_files
       /\ th_pc' = [th_pc EXCEPT ![i] = IF ok THEN "check_topology" ELSE "raised"]
  /\ UNCHANGED << load_vars, gmi_vars, stype, hist_pc, hist_path, hist_threads, force,
                  his_files, thread_list, hist_n, hist_j, th_path >>

\* if 'TOPOLOGY' in stype: the test before the Topology Extractor; otherwise,
\* and when the topology exists, the thread ends.
HistCheckTopology(i) ==
  /\ th_pc[i] = "check_topology"
  /\ th_pc' = [th_pc EXCEPT ![i] =
                 IF IsTopology(stype) /\ NeedsTopology(OutputPrefix(th_path[i]))
                   THEN "compute_topology" ELSE "returned"]
  /\ UNCHANGED << load_vars, gmi_vars, stype, fs_files, hist_pc, hist_path, hist_threads, force,
                  his_files, thread_list, hist_n, hist_j, th_path, th_log >>

\* pynoddy.compute_topology(output)
HistComputeTopology(i) ==
  /\ th_pc[i] = "compute_topology"
  /\ \E ok \in BOOLEAN :
       /\ th_log' = [th_log EXCEPT ![i] = Append(@, Event("compute_topology", i, ok))]
       /\ fs_files' = IF ok THEN fs_files \cup { TopologyOutput(OutputPrefix(th_path[i])) }
                      ELSE fs_files
       /\ th_pc' = [th_pc EXCEPT ![i] = IF ok THEN "returned" ELSE "raised"]
  /\ UNCHANGED << load_vars, gmi_vars, stype, hist_pc, hist_path, hist_threads, force,
                  his_files, thread_list, hist_n, hist_j, th_path >>

NextHist ==
  \/ HistCall
  \/ HistSpawn
  \/ HistJoin
  \/ \E i \in HistThreads :
       \/ HistCheckModel(i)
       \/ HistComputeModel(i)
       \/ HistCheckTopology(i)
       \/ HistComputeTopology(i)

SpecHist == InitHist /\ [][NextHist]_vars

\* The scheduler lets the caller and every started thread take their next
\* step, and every external invocation returns or raises.
SpecHistFair == InitHistFair /\ [][NextHist]_vars /\ WF_vars(NextHist)

\* Either entry point, each called once from its own start.
InitPool == Init \/ InitHist

NextPool == NextDirs \/ NextHist

SpecPool == InitPool /\ [][NextPool]_vars

(***************************************************************************)
(* load_topology_realisations                                              *)
(***************************************************************************)

\* The directory that is searched and its one subdirectory.
LoadRoot == << <<"mc_out">> >>
LoadDirs == { LoadRoot, Append(LoadRoot, <<"thread_0">>) }

\* File names the tree may hold: a topology file, a topology file with a dot
\* in its base name, a copy of a topology file under another extension, and a
\* model output.
LoadNames ==
  << <<"a",".","b">> \o DotG23,
     <<"m">> \o DotG01,
     <<"m">> \o DotG23,
     <<"x">> \o DotG23 \o <<".","b","a","k">> >>

\* os.walk(path): the files of each directory, top directory first, here
\* listed in name order.
LoadCandidates ==
  [ i \in 1 .. Len(LoadNames) |-> Append(LoadRoot, LoadNames[i]) ] \o
  [ i \in 1 .. Len(LoadNames) |-> Append(Append(LoadRoot, <<"thread_0">>), LoadNames[i]) ]

LoadWalk ==
  LET Exists(f) == f \in fs_files
  IN SelectSeq(LoadCandidates, Exists)

\* f.split('.')[0]: the name up to its first dot
SplitFirst(c) == IF HasDot(c) THEN SubSeq(c, 1, FirstDot(c) - 1) ELSE c

\* base = os.path.join(root, f.split('.')[0])
LoadBase(f) == Append(DirName(f), SplitFirst(f[Len(f)]))

\* if ('.g23' in f)
IsTopologyFile(f) == Contains(DotG23, f[Len(f)])

InitLoad ==
  /\ fs_files \in SUBSET { LoadCandidates[i] : i \in DOMAIN LoadCandidates }
  /\ preexisting = fs_files
  /\ fs_dirs = LoadDirs
  /\ load_pc = "start"
  /\ load_path = LoadRoot
  /\ load_files = <<>>
  /\ topologies = <<>>
  /\ nodename = <<>>
  /\ obj = "none"
  /\ stype = <<"B","L","O","C","K">>
  /\ pc = [p \in Procs |-> IF p = Main THEN "idle" ELSE "unstarted"]
  /\ path = [p \in Procs |-> <<>>]
  /\ count = [p \in Procs |-> 0]
  /\ threads = [p \in Procs |-> 1]
  /\ changes = [p \in Procs |-> None]
  /\ n = [p \in Procs |-> 0]
  /\ t = [p \in Procs |-> 0]
  /\ writes = {}
  /\ log = [p \in Procs |-> <<>>]
  /\ ObjInit
  /\ HistIdle

\* topologies = []; for root, dirnames, filenames in os.walk(path)
LoadCall ==
  /\ load_pc = "start"
  /\ load_files' = LoadWalk
  /\ topologies' = <<>>
  /\ load_pc' = IF LoadWalk = <<>> THEN "returned" ELSE "walk"
  /\ UNCHANGED << gmi_vars, hist_vars, stype, fs_files, load_path >>

\* for f in filenames: a file whose name holds ".g23" is loaded from its
\* base; after the last file, return topologies.
LoadFile ==
  /\ load_pc = "walk"
  /\ LET f == Head(load_files) IN
       topologies' = IF IsTopologyFile(f) THEN Append(topologies, LoadBase(f))
                     ELSE topologies
  /\ load_files' = Tail(load_files)
  /\ load_pc' = IF Tail(load_files) = <<>> THEN "returned" ELSE "walk"
  /\ UNCHANGED << gmi_vars, hist_vars, stype, fs_files, load_path >>

NextLoad == LoadCall \/ LoadFile

SpecLoad == InitLoad /\ [][NextLoad]_vars

(***************************************************************************)
(* Properties of generate_model_instances, checked under Spec.             *)
(***************************************************************************)

\* Positions in a thread's log of the calls of one kind.
Ops(p, op) == { i \in DOMAIN log[p] : log[p][i].op = op }

\* A path whose name ends in ".his".
IsHistoryFile(f) ==
  LET name == f[Len(f)] IN
    /\ Len(name) >= Len(DotHis)
    /\ SubSeq(name, Len(name) - Len(DotHis) + 1, Len(name)) = DotHis

\* The history files a thread has written.
HistoryWrites(p) == { x[2] : x \in { y \in writes : y[1] = p /\ IsHistoryFile(y[2]) } }

RunOps == {"random_perturbation", "write_history", "compute_model", "compute_topology"}

\* Model Runner invocations over all threads.
RECURSIVE ModelCallsUpTo(_)
ModelCallsUpTo(i) ==
  IF i < Main THEN 0 ELSE Cardinality(Ops(i, "compute_model")) + ModelCallsUpTo(i - 1)

TotalModelCalls == ModelCallsUpTo(MaxThreads - 1)

RECURSIVE SumCounts(_)
SumCounts(i) == IF i < 0 THEN 0 ELSE count[i] + SumCounts(i - 1)

AllSpawned == threads[Main] > 1 /\ pc[Main] \in {"join", "returned"}

\* C1: with W > 1 workers the chunk sizes handed to the workers sum to N, worker
\* 0 gets N div W + N mod W and every other worker N div W (N = 10, W = 3 gives
\* 4, 3, 3); with W = 1 the caller's own loop performs all N runs.
C1_ChunkSizes ==
  /\ << ChunkSize(10, 3, 0), ChunkSize(10, 3, 1), ChunkSize(10, 3, 2) >> = << 4, 3, 3 >>
  /\ (AllSpawned /\ count[Main] >= 1) =>
       LET N == count[Main]
           W == threads[Main]
       IN /\ count[0] = (N \div W) + (N % W)
          /\ \A i \in 1 .. (W - 1) : count[i] = N \div W
          /\ SumCounts(W - 1) = N
  /\ (threads[Main] = 1 /\ pc[Main] = "returned" /\ count[Main] >= 1) =>
       Cardinality(Ops(Main, "compute_model")) = count[Main]

\* Two workers, three runs: the first worker has the remainder.
C1_Witness ==
  /\ AllSpawned
  /\ threads[Main] = 2 /\ count[Main] = 3
  /\ count[0] = 2 /\ count[1] = 1
  /\ pc[Main] = "returned"

\* C2: in every thread the i-th call of each per-run step carries run index i
\* (indices start at 1, without gap or repeat), no step of a run precedes a
\* step of an earlier run, the history files are named by those indices, and a
\* thread that returns has executed exactly the indices 1..n.
C2_RunNumbering ==
  \A p \in Procs :
    LET L == log[p]
        runs == { i \in DOMAIN L : L[i].op \in RunOps }
    IN /\ \A i \in runs, j \in runs : i < j => L[i].n <= L[j].n
       /\ \A op \in RunOps : \A i \in Ops(p, op) :
            L[i].n = Cardinality({ j \in Ops(p, op) : j <= i })
       /\ HistoryWrites(p)
            = { Append(path[p], BaseName \o <<"_", "0", "0", "0">> \o Digits(k) \o DotHis) :
                  k \in 1 .. Cardinality(Ops(p, "write_history")) }
       /\ (pc[p] = "returned" /\ threads[p] = 1) =>
            { L[i].n : i \in Ops(p, "compute_model") } = 1 .. count[p]

\* A worker has finished two runs.
C2_Witness ==
  \E p \in Threads :
    /\ pc[p] = "returned"
    /\ count[p] = 2
    /\ Cardinality(Ops(p, "compute_model")) = 2

\* C4 (as stated): a run whose expected output already exists is skipped: the
\* Model Runner is never invoked for a run whose output was there before the
\* call, and its history file is not rewritten.
C4_SkipsExistingOutputs ==
  \A p \in Procs :
    /\ \A i \in Ops(p, "compute_model") :
         ModelOutput(OutputPath(path[p], BaseName, log[p][i].n)) \notin preexisting
    /\ HistoryWrites(p) \cap preexisting = {}

\* C4 (amended): generate_model_instances has no existence check and no
\* force flag: every run a thread has completed wrote its history file and
\* invoked the Model Runner exactly once, whatever was on disk before, and a
\* thread that returns has gone through all its assigned runs.
C4_EveryRunExecuted ==
  \A p \in Procs :
    /\ \A k \in 1 .. (n[p] - 1) :
         /\ Cardinality({ i \in Ops(p, "compute_model") : log[p][i].n = k }) = 1
         /\ << p, HistoryFile(OutputPath(path[p], BaseName, k)) >> \in writes
    /\ (pc[p] = "returned" /\ threads[p] = 1) => n[p] = count[p] + 1

\* A thread has re-run and returned although all its outputs were there before.
C4_Witness ==
  \E p \in Procs :
    /\ pc[p] = "returned"
    /\ threads[p] = 1
    /\ count[p] >= 2
    /\ \A k \in 1 .. count[p] :
         /\ ModelOutput(OutputPath(path[p], BaseName, k)) \in preexisting
         /\ Cardinality({ i \in Ops(p, "compute_model") : log[p][i].n = k }) = 1

\* C5: when a multi-worker call returns, every worker it spawned has ended,
\* and if all of them ended normally exactly N Model Runner invocations were
\* made in total (also when N < W).
C5_JoinedAndComplete ==
  (pc[Main] = "returned" /\ threads[Main] > 1) =>
    /\ \A i \in 0 .. (threads[Main] - 1) : pc[i] \in {"returned", "raised"}
    /\ (\A i \in 0 .. (threads[Main] - 1) : pc[i] = "returned") =>
         TotalModelCalls = count[Main]

\* Three workers, two runs: the call has returned after two invocations.
C5_Witness ==
  /\ pc[Main] = "returned"
  /\ threads[Main] = 3
  /\ count[Main] = 2
  /\ \A i \in 0 .. 2 : pc[i] = "returned"
  /\ TotalModelCalls = 2

\* C6: no file is written by two different threads.
C6_DisjointWrites ==
  \A x \in writes, y \in writes : x[2] = y[2] => x[1] = y[1]

\* Two workers have each written a history file, an output and a changes table.
C6_Witness ==
  /\ threads[Main] > 1
  /\ \A p \in {0, 1} :
       /\ HistoryWrites(p) # {}
       /\ << p, ModelOutput(OutputPath(path[p], BaseName, 1)) >> \in writes
       /\ << p, Plus(changes[p], DotCsv) >> \in writes

\* C7 (as stated): every history file written by worker i is
\* <output_dir>/<node_name?>/thread_<i>/<base_name>_<4-digit-index>.his, with
\* nothing between thread_<i> and the file name.
C7_HistoryLayout ==
  \A x \in writes :
    (x[1] \in Threads /\ IsHistoryFile(x[2])) =>
      \E k \in 1 .. MaxCount :
        x[2] = Append(Append(Join(OutputDir, nodename), <<"thread_">> \o Digits(x[1])),
                      BaseName \o <<"_", "0", "0", "0">> \o Digits(k) \o DotHis)

C9_FailurePropagates ==
  pc[Main] = "returned" =>
    \A p \in Procs : \A i \in DOMAIN log[p] : log[p][i].ok

\* C10 (as stated): load_noddy_realisations never returns normally, and
\* construction never leaves an object without a parameter specification.
C10_StubsFailLoudly ==
  /\ pc[Main] # "load_noddy_returned_None"
  /\ obj # "noparams"

\* The workers the caller has started so far.
Started == { w \in Threads : pc[w] # "unstarted" }

\* C11: in a multi-worker call every worker is bound to an object of its own,
\* distinct from the caller's and from every other worker's; the Model
\* Description a worker sees reflects its own perturbations only, and the
\* caller's Model Description keeps the value it had before the call.
C11_IsolatedCopies ==
  threads[Main] > 1 =>
    /\ description[self_obj[Main]] = 0
    /\ \A w \in Started :
         /\ self_obj[w] # self_obj[Main]
         /\ \A v \in Started : v # w => self_obj[v] # self_obj[w]
         /\ description[self_obj[w]] = Cardinality(Ops(w, "random_perturbation"))

\* Two workers have each perturbed their copy, one of them twice, and the call
\* has returned with the caller's description untouched.
C11_Witness ==
  /\ threads[Main] = 2
  /\ pc[Main] = "returned"
  /\ description[self_obj[0]] = 2
  /\ description[self_obj[1]] = 1
  /\ description[self_obj[Main]] = 0

\* C12: in every thread the steps of a run come in the order perturbation,
\* history file, Model Runner, Topology Extractor: a Model Runner call is
\* directly preceded by the write of the history file it is given, which is
\* directly preceded by that run's perturbation; a Topology Extractor call is
\* directly preceded by that run's Model Runner call, which has returned, and
\* is given that run's output prefix.
C12_StepOrder ==
  \A p \in Procs :
    LET L == log[p] IN
    /\ \A i \in Ops(p, "compute_model") :
         /\ i >= 3
         /\ L[i - 1].op = "write_history" /\ L[i - 1].n = L[i].n
         /\ L[i - 1].arg = L[i].arg
         /\ << p, L[i].arg >> \in writes
         /\ L[i - 2].op = "random_perturbation" /\ L[i - 2].n = L[i].n
    /\ \A i \in Ops(p, "write_history") :
         i >= 2 /\ L[i - 1].op = "random_perturbation" /\ L[i - 1].n = L[i].n
    /\ \A i \in Ops(p, "compute_topology") :
         /\ L[i - 1].op = "compute_model" /\ L[i - 1].n = L[i].n /\ L[i - 1].ok
         /\ HistoryFile(L[i].arg) = L[i - 1].arg

\* A worker has gone through two whole runs in TOPOLOGY mode.
C12_Witness ==
  \E p \in Threads :
    /\ pc[p] = "returned"
    /\ Cardinality(Ops(p, "compute_topology")) = 2
    /\ Cardinality(Ops(p, "compute_model")) = 2

\* C13: over the seven modes, every completed run has exactly one Model
\* Runner call, and exactly one Topology Extractor call when the mode is
\* TOPOLOGY; in every other mode, ALL included, the Topology Extractor is
\* never called.
C13_TopologyOnlyInTopologyMode ==
  /\ stype \in SimTypes
  /\ \A p \in Procs :
       /\ \A k \in 1 .. (n[p] - 1) :
            /\ Cardinality({ i \in Ops(p, "compute_model") : log[p][i].n = k }) = 1
            /\ Cardinality({ i \in Ops(p, "compute_topology") : log[p][i].n = k }) =
                 IF stype = <<"T","O","P","O","L","O","G","Y">> THEN 1 ELSE 0
       /\ stype # <<"T","O","P","O","L","O","G","Y">> => Ops(p, "compute_topology") = {}

\* A thread has completed two runs in mode ALL without a topology call.
C13_Witness ==
  /\ stype = <<"A","L","L">>
  /\ \E p \in Procs :
       /\ pc[p] = "returned"
       /\ n[p] = 3
       /\ Cardinality(Ops(p, "compute_model")) = 2
       /\ Ops(p, "compute_topology") = {}

\* The directories thread p asked the file system to create.
Created(p) == { log[p][i].arg : i \in Ops(p, "makedirs") \cup Ops(p, "mkdir") }

\* C15: whatever part of the output directory, the node directory and the
\* thread_<i> directories is there before the call, no thread is ever about to
\* create, or has ever asked to create, a directory that exists: every
\* directory-creation call succeeds, under every interleaving of parent and
\* workers.  Checked under SpecDirs.
C15_NoDirectoryFailure ==
  \A p \in Procs :
    /\ pc[p] = "makedirs" => path[p] \notin fs_dirs
    /\ pc[p] = "spawn_mkdir" => ThreadPath(path[p], t[p]) \notin fs_dirs
    /\ \A i \in Ops(p, "makedirs") \cup Ops(p, "mkdir") : log[p][i].ok
    /\ \A q \in Procs : q # p => Created(p) \cap Created(q) = {}

\* A multi-worker call has returned; one thread_<i> directory was there before
\* the call, another was created by the parent, and a worker created a
\* directory of its own.
C15_Witness ==
  /\ pc[Main] = "returned"
  /\ threads[Main] > 1
  /\ \E v \in Started, w \in Started :
       /\ ThreadPath(path[Main], v) \notin Created(Main)
       /\ ThreadPath(path[Main], w) \in Created(Main)
       /\ Created(w) # {}

\* The completed simulator calls of thread p before position i of its log.
DoneBefore(p, op, i) == { j \in Ops(p, op) : j < i /\ log[p][j].ok }

\* C16: the parameter-changes table is optional and per worker.  When the
\* call is made with write_changes = None no thread writes a table.  Otherwise
\* a thread writes at most one table, the write is the last thing it does, and
\* by then every run assigned to it has completed (its model, and in topology
\* mode its topology as well); a thread that ran its own loop and returned has
\* written exactly one.
C16_TableOnceAfterRuns ==
  \A p \in Procs :
    LET tables == Ops(p, "write_parameter_changes") IN
      /\ changes[Main] = None => tables = {}
      /\ changes[p] = None => tables = {}
      /\ Cardinality(tables) <= 1
      /\ \A i \in tables :
           /\ i = Len(log[p])
           /\ Cardinality(DoneBefore(p, "compute_model", i)) = count[p]
           /\ IsTopology(stype) =>
                Cardinality(DoneBefore(p, "compute_topology", i)) = count[p]
      /\ (pc[p] = "returned" /\ threads[p] = 1 /\ changes[p] # None) =>
           Cardinality(tables) = 1

\* A multi-worker call with a table has returned; a worker with two runs has
\* written its table after both.
C16_Witness ==
  /\ pc[Main] = "returned"
  /\ threads[Main] > 1
  /\ changes[Main] # None
  /\ \E w \in Started :
       /\ count[w] = 2
       /\ pc[w] = "returned"
       /\ Ops(w, "write_parameter_changes") = { Len(log[w]) }

(***************************************************************************)
(* Properties of generate_models_from_existing_histories, checked under    *)
(* SpecHist.                                                               *)
(***************************************************************************)

\* The history files in the directory when the call is made.
HisInitially == { f \in preexisting : Contains(DotHis, f[Len(f)]) }

\* Every history file's outputs for the requested mode are already there.
OutputsPresent ==
  \A f \in HisInitially :
    /\ ModelOutput(OutputPrefix(f)) \in preexisting
    /\ IsTopology(stype) => TopologyOutput(OutputPrefix(f)) \in preexisting

HistOps(i, op) == { e \in DOMAIN th_log[i] : th_log[i][e].op = op }

RECURSIVE HistModelCallsUpTo(_)
HistModelCallsUpTo(i) ==
  IF i = 0 THEN 0 ELSE Cardinality(HistOps(i, "compute_model")) + HistModelCallsUpTo(i - 1)

\* C3: without force_recalculate and with every expected output present, no
\* thread ever invokes compute_model or compute_topology; with
\* force_recalculate, when the call returns compute_model has been invoked
\* exactly once for each of the N history files, whatever outputs existed.
C3_SkipOrForce ==
  /\ (hist_pc \notin {"idle", "start"} /\ ~force /\ OutputsPresent) =>
       \A i \in HistThreads : th_log[i] = <<>>
  /\ (hist_pc = "returned" /\ force) =>
       /\ HistModelCallsUpTo(MaxFiles) = Cardinality(HisInitially)
       /\ \A f \in HisInitially :
            \E i \in HistThreads :
              /\ th_path[i] = f
              /\ Cardinality(HistOps(i, "compute_model")) = 1
              /\ \A j \in HistThreads : th_path[j] = f => j = i

\* A forced call over three history files whose outputs all existed has
\* returned after three invocations.
C3_Witness ==
  /\ hist_pc = "returned"
  /\ force
  /\ Cardinality(HisInitially) = 3
  /\ OutputsPresent
  /\ HistModelCallsUpTo(MaxFiles) = 3

\* The threads of generate_models_from_existing_histories that are running.
Alive == { i \in HistThreads : th_pc[i] \notin {"unstarted", "returned", "raised"} }

\* C14: the pool is bounded by the configured count.  In
\* generate_models_from_existing_histories with threads = W >= 1 at most W
\* threads are alive at any moment, a batch never holds more threads than loop
\* steps taken, and a batch starts only when every earlier thread has ended;
\* generate_model_instances with threads = W > 1 starts workers 0 .. W-1 only
\* and has started exactly W of them once its loop is done.  Checked under
\* SpecPool.
C14_PoolBounded ==
  /\ Cardinality(Alive) <= hist_threads
  /\ hist_pc = "for" => Cardinality(Alive) <= hist_n
  /\ Alive \subseteq { thread_list[j] : j \in DOMAIN thread_list }
  /\ (hist_pc = "for" /\ hist_n = 0) => Alive = {}
  /\ hist_pc = "returned" => Alive = {}
  /\ Started \subseteq 0 .. (threads[Main] - 1)
  /\ threads[Main] = 1 => Started = {}
  /\ AllSpawned => Cardinality(Started) = threads[Main]

\* A full first batch of more than one thread has been joined and files are
\* left for a second one.
C14_Witness ==
  /\ hist_pc = "for"
  /\ hist_n = 0
  /\ hist_threads > 1
  /\ Len(thread_list) = hist_threads
  /\ Len(his_files) > 0

\* The threads the call has created.
Dispatched == { thread_list[j] : j \in DOMAIN thread_list }

\* C18: with threads = W >= 1 the call returns, given that every thread gets
\* to run and every simulator call ends; and when it has returned every
\* history file found has been handed to exactly one thread, no thread was
\* created for anything else, no file is left on the list and every thread
\* created has ended.  Checked under SpecHistFair.
C18_ReturnsAllDispatchedOnce ==
  /\ <>(hist_pc = "returned")
  /\ [](hist_pc = "returned" =>
          /\ his_files = <<>>
          /\ Len(thread_list) = Cardinality(HisInitially)
          /\ Cardinality(Dispatched) = Len(thread_list)
          /\ \A f \in HisInitially :
               Cardinality({ i \in Dispatched : th_path[i] = f }) = 1
          /\ \A i \in Dispatched : HistThreadFinished(i))

\* The call has returned after three files went to three threads, two at a
\* time.
C18_Witness ==
  /\ hist_pc = "returned"
  /\ hist_threads = 2
  /\ Cardinality(HisInitially) = 3
  /\ Len(thread_list) = 3

\* C19: in TOPOLOGY mode, whatever outputs existed and whatever force says,
\* a thread that has invoked compute_model for its file and ended normally
\* has invoked compute_topology for it afterwards.  Checked under SpecHist.
C19_TopologyFollowsModel ==
  \A i \in HistThreads :
    (stype = <<"T","O","P","O","L","O","G","Y">> /\ th_pc[i] = "returned") =>
      \A e \in HistOps(i, "compute_model") :
        \E x \in HistOps(i, "compute_topology") : x > e

(***************************************************************************)
(* Properties of load_topology_realisations, checked under SpecLoad.       *)
(***************************************************************************)

\* A file carries extension ext when its name ends with it.
HasExtension(f, ext) ==
  LET name == f[Len(f)] IN
    Len(name) > Len(ext) /\ SubSeq(name, Len(name) - Len(ext) + 1, Len(name)) = ext

\* The path of a file without the extension ext at its end.
WithoutExtension(f, ext) ==
  [f EXCEPT ![Len(f)] = SubSeq(@, 1, Len(@) - Len(ext))]

\* The files under the searched directory that carry the topology extension.
TopologyFiles == { f \in fs_files : HasExtension(f, DotG23) }

\* C17: the returned list holds exactly one topology per file under path that
\* carries the extension .g23, loaded from that file's own path without the
\* extension, and nothing for any other file.
C17_OnePerTopologyFile ==
  load_pc = "returned" =>
    /\ Len(topologies) = Cardinality(TopologyFiles)
    /\ { topologies[i] : i \in DOMAIN topologies } =
         { WithoutExtension(f, DotG23) : f \in TopologyFiles }

================================================================================
